---- MODULE Spec2Model ----
(***************************************************************************)
(* Blood pressure dashboard: the ESC classifier                            *)
(* (data_processing.klasyfikuj_cisnienie_esc_wektorowo), the loader with   *)
(* its Feather cache (data_processing.wczytaj_i_przetworz_dane) and the    *)
(* refresh callback (callbacks.refresh_data).                              *)
(*                                                                         *)
(* Category names are written without diacritics and without the degree    *)
(* sign; mean arterial pressure is kept in tenths of mmHg.                 *)
(***************************************************************************)
EXTENDS Integers, Sequences, FiniteSets, TLC

VARIABLES
    SYS,        \* classifier input: df['SYS'] of the row being classified
    DIA,        \* classifier input: df['DIA'] of the row being classified
    Kategoria,  \* df['Kategoria'] of that row, "-" before np.select has run
    zegar,      \* the file system's clock (the unit of getmtime)
    excel,      \* the source workbook: [istnieje, mtime, kolumny, tabela]
    feather,    \* the cache file: [istnieje, mtime, uszkodzony, df]
    ret,        \* what the last call of wczytaj_i_przetworz_dane gave its caller
    slad,       \* what that call did: its arguments, the files it read and wrote
    ostatni_fetch,      \* the dataset of the most recent successful fetch
    n_clicks_regular,   \* refresh-button.n_clicks (0 stands for None)
    n_clicks_bypass,    \* refresh-bypass-button.n_clicks (0 stands for None)
    data_store,         \* dcc.Store 'data-store'
    status_output,      \* 'status-output'.children
    watki,      \* the position of each concurrent caller inside the loader
    n_intervals,        \* 'animation-interval'.n_intervals
    day_slider,         \* 'day-slider': [value, max]
    fig         \* the value a chart generator returned last

klas_vars == <<SYS, DIA, Kategoria>>
plik_vars == <<zegar, excel, feather>>
call_vars == <<ret, slad, ostatni_fetch>>
dash_vars == <<n_clicks_regular, n_clicks_bypass, data_store, status_output>>
ui_vars == <<n_intervals, day_slider, fig>>
vars == <<klas_vars, plik_vars, call_vars, dash_vars, watki, ui_vars>>

\* ------------------------------------------------------------------ bounds
MaxSys == 200
MaxDia == 125
MaxWierszy == 1
MaxZegar == 1
MaxKlik == 1
MaxPomiarow == 3
MaxWykres == 2
MaxSuwak == 4
MaxTykow == 6

\* ------------------------------------------------------------------ config.py
PROGI_ESC ==
    [ optymalne      |-> [sys |-> 120, dia |-> 70],
      prawidlowe     |-> [sys |-> 120, dia |-> 70],
      podwyzszone    |-> [sys |-> 130, dia |-> 80],
      nadcisnienie_1 |-> [sys |-> 140, dia |-> 90],
      nadcisnienie_2 |-> [sys |-> 160, dia |-> 100],
      nadcisnienie_3 |-> [sys |-> 180, dia |-> 110] ]

KOLEJNOSC_ESC ==
    << "Optymalne", "Prawidlowe", "Podwyzszone", "Nadcisnienie 1",
       "Nadcisnienie 2", "Nadcisnienie 3", "Izolowane nadcisnienie skurczowe" >>

\* ------------------------------------------------------------------ classifier
\* The ISH test written with the diastolic cut-point of 'podwyzszone' (80).
ish_podwyzszone(s, d) ==
    (s >= PROGI_ESC.nadcisnienie_1.sys) /\ (d < PROGI_ESC.podwyzszone.dia)

\* conditions[0]: SYS >= N1.sys AND DIA < N1.dia
ish(s, d) ==
    (s >= PROGI_ESC.nadcisnienie_1.sys) /\ (d < PROGI_ESC.nadcisnienie_1.dia)

\* A tier test written with AND where the code has OR.
prog_and(p, s, d) == (s >= p.sys) /\ (d >= p.dia)

\* conditions[1..5]: SYS >= tier.sys OR DIA >= tier.dia
prog(p, s, d) == (s >= p.sys) \/ (d >= p.dia)

\* The condition list whose ISH test never holds.
conditions_bez_ish(s, d) ==
    << FALSE,
       prog(PROGI_ESC.nadcisnienie_3, s, d),
       prog(PROGI_ESC.nadcisnienie_2, s, d),
       prog(PROGI_ESC.nadcisnienie_1, s, d),
       prog(PROGI_ESC.podwyzszone, s, d),
       prog(PROGI_ESC.optymalne, s, d) >>

conditions(s, d) ==
    << ish(s, d),
       prog(PROGI_ESC.nadcisnienie_3, s, d),
       prog(PROGI_ESC.nadcisnienie_2, s, d),
       prog(PROGI_ESC.nadcisnienie_1, s, d),
       prog(PROGI_ESC.podwyzszone, s, d),
       prog(PROGI_ESC.optymalne, s, d) >>

\* The choices list with the ISH label out of step with KOLEJNOSC_ESC.
choices_skrot ==
    << "ISH", "Nadcisnienie 3", "Nadcisnienie 2", "Nadcisnienie 1",
       "Podwyzszone", "Prawidlowe" >>

choices ==
    << "Izolowane nadcisnienie skurczowe", "Nadcisnienie 3", "Nadcisnienie 2",
       "Nadcisnienie 1", "Podwyzszone", "Prawidlowe" >>

\* np.select taking the last condition that is true instead of the first.
np_select_ostatni(condlist, choicelist, default) ==
    LET hit == { i \in 1..Len(condlist) : condlist[i] }
    IN  IF hit = {} THEN default
        ELSE choicelist[CHOOSE i \in hit : \A j \in hit : i >= j]

\* np.select: the choice of the first condition that is true, else the default
np_select(condlist, choicelist, default) ==
    LET hit == { i \in 1..Len(condlist) : condlist[i] }
    IN  IF hit = {} THEN default
        ELSE choicelist[CHOOSE i \in hit : \A j \in hit : i <= j]

\* The classifier with 'Prawidlowe' as the default of np.select.
klasyfikuj_domyslnie_prawidlowe(s, d) ==
    np_select(conditions(s, d), choices, "Prawidlowe")

klasyfikuj_cisnienie_esc_wektorowo(s, d) ==
    np_select(conditions(s, d), choices, "Optymalne")

\* ------------------------------------------------------------------ tables
STANDARDOWE_GODZINY == {10, 13, 16, 19, 22}

\* pd.NaT: what to_datetime(errors='coerce') gives for text it cannot parse
NaT == -1
\* NaN: an empty cell of a numeric column
NaN == -2

Kolumny == {"Data", "Godzina", "SYS", "DIA", "PUL"}

\* The workbooks of the model: all five columns, or one of them missing.
WariantyKolumn == { Kolumny, Kolumny \ {"Godzina"}, Kolumny \ {"PUL"} }

\* The rows a workbook of the model is made of. Data is a day number (day 0
\* is a Monday), Godzina an hour of the day; Godzina 99 is text that is no
\* time of day.
Wiersze ==
    { [Data |-> 5, Godzina |-> 22, SYS |-> 185, DIA |-> 95,  PUL |-> 80],
      [Data |-> 0, Godzina |-> 10, SYS |-> 118, DIA |-> 65,  PUL |-> 60],
      [Data |-> 0, Godzina |-> 10, SYS |-> 145, DIA |-> 85,  PUL |-> NaN],
      [Data |-> 1, Godzina |-> 99, SYS |-> 165, DIA |-> 105, PUL |-> 70] }

Tabele == UNION { [1..n -> Wiersze] : n \in 0..MaxWierszy }

\* The workbooks of the model: every table under the five columns, and a
\* one-row table under each variant with a column missing.
Skoroszyty ==
    { [kolumny |-> Kolumny, tabela |-> t] : t \in Tabele }
    \cup { [kolumny |-> k, tabela |-> t] :
              k \in WariantyKolumn \ {Kolumny}, t \in [1..1 -> Wiersze] }

\* pd.DataFrame()
pusty == << >>

\* ------------------------------------------------------------------ processing
\* pd.to_datetime(Data + ' ' + Godzina, errors='coerce'), in hours since day 0
to_datetime(data, godzina) ==
    IF data >= 0 /\ godzina \in 0..23 THEN data * 24 + godzina ELSE NaT

\* A dropna that keeps every row.
dropna_nic(df, subset) == df

\* df.dropna(subset=[...]): the rows with a value in every column of subset
dropna(df, subset) ==
    SelectSeq(df, LAMBDA r : \A k \in subset : r[k] \notin {NaT, NaN})

\* A sort_values that leaves the rows in the order of the workbook.
sort_values_bez(df) == { df }

\* df.sort_values('Datetime'): every order the (unstable) sort may give
sort_values(df) ==
    { [i \in 1..Len(df) |-> df[p[i]]] :
        p \in { q \in Permutations(1..Len(df)) :
                  \A i, j \in 1..Len(df) :
                      i < j => df[q[i]].Datetime <= df[q[j]].Datetime } }

\* The mean arterial pressure cut to one decimal place instead of rounded.
MAP_obciete(s, d) == ((s + 2 * d) * 10) \div 3

\* round((SYS + 2 * DIA) / 3, 1), in tenths: thirds never fall on a half
MAP(s, d) == ((s + 2 * d) * 20 + 3) \div 6

PP(s, d) == s - d

Hour(dt) == dt % 24

\* Datetime.dt.date
Dzien(dt) == [typ |-> "date", d |-> dt \div 24]

\* f"{h:02d}:00" if h in STANDARDOWE_GODZINY else None
Godzina_Pomiaru(h) == IF h \in STANDARDOWE_GODZINY THEN <<h, 0>> ELSE <<>>

\* Datetime.dt.dayofweek, then 'Weekend' if x >= 5 else 'Dzien roboczy'
Typ_Dnia(dt) ==
    IF (dt \div 24) % 7 >= 5 THEN "Weekend" ELSE "Dzien roboczy"

\* lines 212-218: the Datetime column of each row
z_datetime(df) ==
    [i \in 1..Len(df) |->
        [Data |-> df[i].Data, Godzina |-> df[i].Godzina, SYS |-> df[i].SYS,
         DIA |-> df[i].DIA, PUL |-> df[i].PUL,
         Datetime |-> to_datetime(df[i].Data, df[i].Godzina)]]

\* lines 227-240: the derived columns and the category of each row
z_pochodnymi(df) ==
    [i \in 1..Len(df) |->
        [Data |-> df[i].Data, Godzina |-> df[i].Godzina, SYS |-> df[i].SYS,
         DIA |-> df[i].DIA, PUL |-> df[i].PUL, Datetime |-> df[i].Datetime,
         MAP |-> MAP(df[i].SYS, df[i].DIA),
         PP |-> PP(df[i].SYS, df[i].DIA),
         Hour |-> Hour(df[i].Datetime),
         Dzien |-> Dzien(df[i].Datetime),
         Godzina_Pomiaru |-> Godzina_Pomiaru(Hour(df[i].Datetime)),
         Typ_Dnia |-> Typ_Dnia(df[i].Datetime),
         Kategoria |->
             klasyfikuj_cisnienie_esc_wektorowo(df[i].SYS, df[i].DIA)]]

\* lines 247-252: the copy handed to to_feather, 'Dzien' as text
df_do_zapisu(df) ==
    [i \in 1..Len(df) |->
        [df[i] EXCEPT !.Dzien = [typ |-> "str", d |-> df[i].Dzien.d]]]

\* lines 209-240 on a frame [kolumny, wiersze]: every result the processing
\* may give, a frame with its two row counts or the exception that ends it
przetworz(ramka) ==
    IF ~({"Data", "Godzina"} \subseteq ramka.kolumny)
           /\ "Datetime" \notin ramka.kolumny
    THEN { [wyjatek |-> "KeyError", e |-> {"Datetime"}] }
    ELSE { IF {"SYS", "DIA", "PUL"} \subseteq ramka.kolumny
           THEN LET po == dropna(s, {"SYS", "DIA", "PUL"})
                IN  [wyjatek |-> "brak", df |-> z_pochodnymi(po),
                     liczba_przed |-> Len(s), liczba_po |-> Len(po)]
           ELSE [wyjatek |-> "KeyError",
                 e |-> {"SYS", "DIA", "PUL"} \ ramka.kolumny]
         : s \in sort_values(dropna(z_datetime(ramka.wiersze), {"Datetime"})) }

\* ------------------------------------------------------------------ files
brak_pliku == [istnieje |-> FALSE, mtime |-> 0, uszkodzony |-> FALSE, df |-> pusty]

\* lines 193-197: the cache file exists and is not older than the workbook
cache_jest_aktualny ==
    feather.istnieje /\ feather.mtime >= excel.mtime

\* pd.read_feather(sciezka_feather)
read_feather ==
    IF feather.uszkodzony
    THEN [wyjatek |-> "ArrowInvalid"]
    ELSE [wyjatek |-> "brak",
          ramka |-> [kolumny |-> Kolumny \cup {"Datetime"}, wiersze |-> feather.df]]

\* pd.read_excel(sciezka_excel); io_ok: the read went through
read_excel(io_ok) ==
    IF io_ok
    THEN [wyjatek |-> "brak",
          ramka |-> [kolumny |-> excel.kolumny, wiersze |-> excel.tabela]]
    ELSE [wyjatek |-> "OSError"]

\* How a to_feather call may end: the file replaced; an exception before the
\* file was opened; an exception after it was opened for writing (truncated).
WynikiZapisu == {"ok", "blad", "uciety"}

\* df_do_zapisu.to_feather(sciezka_feather): the cache file afterwards
to_feather(df, zapis) ==
    CASE zapis = "ok" ->
             [istnieje |-> TRUE, mtime |-> zegar, uszkodzony |-> FALSE, df |-> df]
      [] zapis = "uciety" ->
             [istnieje |-> TRUE, mtime |-> zegar, uszkodzony |-> TRUE, df |-> pusty]
      [] zapis = "blad" -> feather

\* no status text: the call has returned nothing (yet)
brak_komunikatu ==
    [typ |-> "-", n |-> 0, zrodlo |-> "-", usunieto |-> 0, e |-> {}]

\* lines 260-262
komunikat_ok(n, zrodlo, przed, po) ==
    [typ |-> "ok", n |-> n, zrodlo |-> zrodlo,
     usunieto |-> IF przed > po THEN przed - po ELSE 0, e |-> {}]

\* line 267
komunikat_brak_pliku ==
    [typ |-> "brak_pliku", n |-> 0, zrodlo |-> "-", usunieto |-> 0, e |-> {}]

\* line 269; e: what the exception's text names
komunikat_blad(e) ==
    [typ |-> "blad", n |-> 0, zrodlo |-> "-", usunieto |-> 0, e |-> e]

\* The removal sentence appended whatever the two counts are.
usunieto_zawsze(m) ==
    << "Usunieto", ToString(m), "niekompletnych", "wierszy", "." >>

\* lines 261-262: the sentence appended when liczba_przed > liczba_po
usunieto_tekst(m) ==
    IF m > 0
    THEN << "Usunieto", ToString(m), "niekompletnych", "wierszy", "." >>
    ELSE << >>

\* lines 260-269: the words of a status text k, punctuation as words of their
\* own; the workbook's file name and the exception's text are one word each
tekst(k) ==
    CASE k.typ = "ok" ->
             << "OK", "Pomyslnie", "wczytano", ToString(k.n), "pomiarow", "z",
                "pliku", k.zrodlo, "." >> \o usunieto_tekst(k.usunieto)
      [] k.typ = "brak_pliku" ->
             << "X", "Blad", ":", "Nie", "znaleziono", "pliku",
                "NAZWA_PLIKU_EXCEL", "w", "folderze", "projektu", "." >>
      [] k.typ = "blad" ->
             << "X", "Blad", "podczas", "wczytywania", "lub", "przetwarzania",
                "danych", ":", ToString(k.e) >>
      [] OTHER -> << >>

\* The body of the try block, lines 187-264, with the exception that leaves it
\* when one does. Every result it may have: [wyjatek, e, df, komunikat,
\* feather, aktualny, czytano_excel, czytano_feather, zapis].
\* An exception that also removes the cache file.
wyjatek_w_try_kasuje(nazwa, e, akt, cz_excel, cz_feather) ==
    [wyjatek |-> nazwa, e |-> e, df |-> pusty, komunikat |-> brak_komunikatu,
     feather |-> brak_pliku, aktualny |-> akt, czytano_excel |-> cz_excel,
     czytano_feather |-> cz_feather, zapis |-> "brak"]

wyjatek_w_try(nazwa, e, akt, cz_excel, cz_feather) ==
    [wyjatek |-> nazwa, e |-> e, df |-> pusty, komunikat |-> brak_komunikatu,
     feather |-> feather, aktualny |-> akt, czytano_excel |-> cz_excel,
     czytano_feather |-> cz_feather, zapis |-> "brak"]

\* The cache is written on both paths.
zapisuj_zawsze(aktualny) == TRUE

\* line 244: if not cache_jest_aktualny
zapisuj(aktualny) == ~aktualny

\* The workbook is read whatever the modification times say.
czytaj_cache_nigdy(aktualny) == FALSE

\* line 200: if cache_jest_aktualny
czytaj_cache(aktualny) == aktualny

proba(io_ok, zapis) ==
    IF ~excel.istnieje
    THEN { wyjatek_w_try("FileNotFoundError", {}, FALSE, FALSE, FALSE) }
    ELSE
    LET akt == cache_jest_aktualny
        z_cache == czytaj_cache(akt)
        wczytane == IF z_cache THEN read_feather ELSE read_excel(io_ok)
        zrodlo_danych == IF z_cache THEN "cache" ELSE "Excel"
    IN  IF wczytane.wyjatek # "brak"
        THEN { wyjatek_w_try(wczytane.wyjatek, {}, akt, ~z_cache, z_cache) }
        ELSE { IF w.wyjatek # "brak"
               THEN wyjatek_w_try(w.wyjatek, w.e, akt, ~z_cache, z_cache)
               ELSE [wyjatek |-> "brak", e |-> {}, df |-> w.df,
                     komunikat |-> komunikat_ok(Len(w.df), zrodlo_danych,
                                                w.liczba_przed, w.liczba_po),
                     feather |-> IF zapisuj(akt)
                                 THEN to_feather(df_do_zapisu(w.df), zapis)
                                 ELSE feather,
                     aktualny |-> akt, czytano_excel |-> ~z_cache,
                     czytano_feather |-> z_cache,
                     zapis |-> IF zapisuj(akt) THEN zapis ELSE "brak"]
             : w \in przetworz(wczytane.ramka) }

\* The exception classes that derive from Exception.
Exception ==
    {"FileNotFoundError", "KeyError", "OSError", "ArrowInvalid", "TypeError"}

\* Only the FileNotFoundError handler: anything else leaves the function.
obsluga_bez_except_Exception(w) ==
    IF w.wyjatek = "FileNotFoundError"
    THEN [w EXCEPT !.wyjatek = "brak", !.df = pusty,
                   !.komunikat = komunikat_brak_pliku]
    ELSE w

\* lines 264-269: the return statement and the two except clauses
obsluga(w) ==
    CASE w.wyjatek = "brak" -> w
      [] w.wyjatek = "FileNotFoundError" ->
             [w EXCEPT !.wyjatek = "brak", !.df = pusty,
                       !.komunikat = komunikat_brak_pliku]
      [] w.wyjatek # "brak" /\ w.wyjatek # "FileNotFoundError"
             /\ w.wyjatek \in Exception ->
             [w EXCEPT !.wyjatek = "brak", !.df = pusty,
                       !.komunikat = komunikat_blad(w.e)]
      [] OTHER -> w

\* line 170: the parameters the function takes
Parametry == {"sciezka_folderu_projektu"}

\* A call of wczytaj_i_przetworz_dane with the keyword arguments kwargs:
\* a keyword that is no parameter is a TypeError before the body runs.
wczytaj_i_przetworz_dane(kwargs, io_ok, zapis) ==
    IF kwargs \subseteq Parametry
    THEN { obsluga(w) : w \in proba(io_ok, zapis) }
    ELSE { wyjatek_w_try("TypeError", kwargs \ Parametry, FALSE, FALSE, FALSE) }

\* ------------------------------------------------------------------ callback
\* df.to_json(date_format='iso', orient='split')
to_json(df) == [json |-> df]

\* bool(n_clicks_bypass)
bool(n) == n # 0

\* refresh_data whose except branch empties the store.
refresh_data_czysci(o) ==
    IF o.wyjatek = "brak"
    THEN [data_store |-> to_json(o.df), status_output |-> o.komunikat]
    ELSE [data_store |-> to_json(pusty),
          status_output |-> [typ |-> "blad_callback", n |-> 0, zrodlo |-> "-",
                             usunieto |-> 0, e |-> o.e]]

\* callbacks.py lines 111-117: what refresh_data returns for the outcome o of
\* its call of the loader: [data_store, status_output]
refresh_data(o) ==
    IF o.wyjatek = "brak"
    THEN [data_store |-> to_json(o.df), status_output |-> o.komunikat]
    ELSE [data_store |-> data_store,
          status_output |-> [typ |-> "blad_callback", n |-> 0, zrodlo |-> "-",
                             usunieto |-> 0, e |-> o.e]]

\* ------------------------------------------------------------------ state
brak_excela == [istnieje |-> FALSE, mtime |-> 0, kolumny |-> Kolumny, tabela |-> pusty]

\* The cache file is there and not older than the workbook, which is there.
Swiezy == excel.istnieje /\ feather.istnieje /\ feather.mtime >= excel.mtime

\* What goes wrong in a call that runs the body on the files as they are:
\* the workbook is missing, the cache that is to be served cannot be read, the
\* read of the workbook fails, or the workbook lacks a column.
Awaria(io_ok) ==
    CASE ~excel.istnieje -> "brak_zrodla"
      [] excel.istnieje /\ Swiezy /\ feather.uszkodzony -> "cache"
      [] excel.istnieje /\ Swiezy /\ ~feather.uszkodzony -> "brak"
      [] excel.istnieje /\ ~Swiezy /\ ~io_ok -> "odczyt"
      [] excel.istnieje /\ ~Swiezy /\ io_ok /\ excel.kolumny # Kolumny -> "kolumny"
      [] OTHER -> "brak"

\* what a call leaves in ret, slad and ostatni_fetch
po_wywolaniu(kto, kwargs, force, io_ok, o) ==
    /\ ret' = [wyjatek |-> o.wyjatek, df |-> o.df, komunikat |-> o.komunikat]
    /\ slad' = [wolajacy |-> kto, kwargs |-> kwargs, force_refresh |-> force,
                excel_byl |-> excel.istnieje, cache_byl |-> feather.istnieje,
                swiezy |-> Swiezy, awaria |-> Awaria(io_ok),
                aktualny |-> o.aktualny, czytano_excel |-> o.czytano_excel,
                czytano_feather |-> o.czytano_feather, zapis |-> o.zapis]
    /\ ostatni_fetch' =
           IF o.czytano_excel /\ o.wyjatek = "brak" /\ o.komunikat.typ = "ok"
           THEN [jest |-> TRUE, df |-> df_do_zapisu(o.df)]
           ELSE ostatni_fetch
    /\ feather' = o.feather

\* The callers of the loader that may run at the same time.
Procesy == {1, 2}

\* a caller that is not inside the loader
poza_funkcja == [pc |-> "poza", aktualny |-> FALSE, df |-> pusty, wynik |-> "-"]

\* Slider.value when the component has none
None == -3

\* no chart generator has returned yet
brak_figury ==
    [klasa |-> "-", title |-> "-", widoczne_osie |-> FALSE, shapes |-> << >>,
     punkty |-> << >>]

\* tabs.py lines 268 and 273 and the callers at rest: the layout as it is
\* built, nobody inside the loader, nothing drawn
Spoczynek ==
    /\ watki = [p \in Procesy |-> poza_funkcja]
    /\ n_intervals = 0
    /\ day_slider = [value |-> 0, max |-> 1]
    /\ fig = brak_figury

\* before any call
brak_sladu ==
    [wolajacy |-> "-", kwargs |-> {}, force_refresh |-> FALSE,
     excel_byl |-> FALSE, cache_byl |-> FALSE, swiezy |-> FALSE,
     awaria |-> "brak", aktualny |-> FALSE, czytano_excel |-> FALSE,
     czytano_feather |-> FALSE, zapis |-> "brak"]

Init ==
    /\ SYS = 0 /\ DIA = 0 /\ Kategoria = "-"
    /\ zegar = 0
    /\ excel = brak_excela
    /\ feather = brak_pliku
    /\ ret = [wyjatek |-> "brak", df |-> pusty, komunikat |-> brak_komunikatu]
    /\ slad = brak_sladu
    /\ ostatni_fetch = [jest |-> FALSE, df |-> pusty]
    /\ n_clicks_regular = 0 /\ n_clicks_bypass = 0
    /\ data_store = to_json(pusty)
    /\ status_output = brak_komunikatu
    /\ Spoczynek

\* The user saves the workbook.
ZapiszExcel ==
    /\ \E sk \in Skoroszyty :
           excel' = [istnieje |-> TRUE, mtime |-> zegar,
                     kolumny |-> sk.kolumny, tabela |-> sk.tabela]
    /\ UNCHANGED <<watki, ui_vars, klas_vars, zegar, feather, call_vars, dash_vars>>

\* The workbook is moved away or deleted.
UsunExcel ==
    /\ excel.istnieje
    /\ excel' = brak_excela
    /\ UNCHANGED <<watki, ui_vars, klas_vars, zegar, feather, call_vars, dash_vars>>

UplywCzasu ==
    /\ zegar < MaxZegar
    /\ zegar' = zegar + 1
    /\ UNCHANGED <<watki, ui_vars, klas_vars, excel, feather, call_vars, dash_vars>>

\* app.py lines 68-105: the application starts, loads the data and puts the
\* frame and the status text into the layout
Uruchom ==
    \E io_ok \in BOOLEAN, zapis \in WynikiZapisu :
      \E o \in wczytaj_i_przetworz_dane({}, io_ok, zapis) :
        /\ po_wywolaniu("app", {}, FALSE, io_ok, o)
        /\ IF o.wyjatek = "brak"
           THEN /\ data_store' = to_json(o.df)
                /\ status_output' = o.komunikat
           ELSE UNCHANGED <<data_store, status_output>>
        /\ n_clicks_regular' = 0
        /\ n_clicks_bypass' = 0
        /\ UNCHANGED <<watki, ui_vars, klas_vars, zegar, excel>>

\* what a click does once the button's n_clicks has been raised
klik(io_ok, zapis) ==
    LET force_refresh == bool(n_clicks_bypass')
    IN  \E o \in wczytaj_i_przetworz_dane({"force_refresh"}, io_ok, zapis) :
          /\ po_wywolaniu("refresh_data", {"force_refresh"}, force_refresh, io_ok, o)
          /\ data_store' = refresh_data(o).data_store
          /\ status_output' = refresh_data(o).status_output
          /\ UNCHANGED <<watki, ui_vars, klas_vars, zegar, excel>>

\* A click on 'refresh-button' fires refresh_data.
KlikOdswiez ==
    /\ n_clicks_regular < MaxKlik
    /\ n_clicks_regular' = n_clicks_regular + 1
    /\ n_clicks_bypass' = n_clicks_bypass
    /\ \E io_ok \in BOOLEAN, zapis \in WynikiZapisu : klik(io_ok, zapis)

\* A click on 'refresh-bypass-button' fires refresh_data.
KlikOdswiezBezCache ==
    /\ n_clicks_bypass < MaxKlik
    /\ n_clicks_bypass' = n_clicks_bypass + 1
    /\ n_clicks_regular' = n_clicks_regular
    /\ \E io_ok \in BOOLEAN, zapis \in WynikiZapisu : klik(io_ok, zapis)

Next ==
    \/ ZapiszExcel
    \/ UsunExcel
    \/ UplywCzasu
    \/ Uruchom

Spec == Init /\ [][Next]_vars

\* The same with the two refresh buttons.
NextOdswiez ==
    \/ Next
    \/ KlikOdswiez
    \/ KlikOdswiezBezCache

SpecOdswiez == Init /\ [][NextOdswiez]_vars

\* config.py line 28; no line of the loader reads it
DATA_CACHE_TTL_MINUTES == 5

\* The instants, in seconds of the clock, at which the model looks again: one
\* second short of five minutes and one second past them.
Chwile == {299, 301}

\* Time passes up to one of those instants.
Czekaj ==
    /\ \E t \in Chwile : t > zegar /\ zegar' = t
    /\ UNCHANGED <<watki, ui_vars, klas_vars, excel, feather, call_vars, dash_vars>>

\* The files and the application start over minutes rather than ticks.
NextTTL ==
    \/ ZapiszExcel
    \/ UsunExcel
    \/ Czekaj
    \/ Uruchom

SpecTTL == Init /\ [][NextTTL]_vars

\* The rows of the workbooks the processing is run on: those of Wiersze, a
\* second complete row at day 0, 10:00 and a row without a systolic value.
Pomiary ==
    Wiersze \cup
    { [Data |-> 0, Godzina |-> 10, SYS |-> 150, DIA |-> 60, PUL |-> 72],
      [Data |-> 2, Godzina |-> 13, SYS |-> NaN, DIA |-> 80, PUL |-> 65] }

TabelePomiarow == UNION { [1..n -> Pomiary] : n \in 0..MaxPomiarow }

\* A workbook of up to MaxPomiarow rows is in the folder, no cache file yet.
InitPrzetwarzanie ==
    /\ SYS = 0 /\ DIA = 0 /\ Kategoria = "-"
    /\ zegar = 0
    /\ \E t \in TabelePomiarow :
           excel = [istnieje |-> TRUE, mtime |-> 0, kolumny |-> Kolumny,
                    tabela |-> t]
    /\ feather = brak_pliku
    /\ ret = [wyjatek |-> "brak", df |-> pusty, komunikat |-> brak_komunikatu]
    /\ slad = brak_sladu
    /\ ostatni_fetch = [jest |-> FALSE, df |-> pusty]
    /\ n_clicks_regular = 0 /\ n_clicks_bypass = 0
    /\ data_store = to_json(pusty)
    /\ status_output = brak_komunikatu
    /\ Spoczynek

\* The application is started, and started again.
NextPrzetwarzanie == Uruchom

SpecPrzetwarzanie == InitPrzetwarzanie /\ [][NextPrzetwarzanie]_vars

\* ------------------------------------------------------------------ classifier run
InitKlasyfikacja ==
    /\ SYS \in 0..MaxSys
    /\ DIA \in 0..MaxDia
    /\ Kategoria = "-"
    /\ zegar = 0
    /\ excel = brak_excela
    /\ feather = brak_pliku
    /\ ret = [wyjatek |-> "brak", df |-> pusty, komunikat |-> brak_komunikatu]
    /\ slad = brak_sladu
    /\ ostatni_fetch = [jest |-> FALSE, df |-> pusty]
    /\ n_clicks_regular = 0 /\ n_clicks_bypass = 0
    /\ data_store = to_json(pusty)
    /\ status_output = brak_komunikatu
    /\ Spoczynek

Klasyfikuj ==
    /\ Kategoria = "-"
    /\ Kategoria' = klasyfikuj_cisnienie_esc_wektorowo(SYS, DIA)
    /\ UNCHANGED <<SYS, DIA, plik_vars, call_vars, dash_vars, watki, ui_vars>>

NextKlasyfikacja == Klasyfikuj

SpecKlasyfikacja == InitKlasyfikacja /\ [][NextKlasyfikacja]_vars

\* ------------------------------------------------------------------ concurrent callers
\* The loader in the steps in which it touches the files, one caller p at a
\* time; watki[p] holds the caller's position and its local variables
\* cache_jest_aktualny and df, and what it returned last.

\* lines 184-185: the call begins
Wejdz(p) ==
    /\ watki[p].pc = "poza"
    /\ watki' = [watki EXCEPT ![p] = [poza_funkcja EXCEPT !.pc = "sprawdz"]]
    /\ UNCHANGED <<klas_vars, plik_vars, call_vars, dash_vars, ui_vars>>

\* lines 189-197: the two exists() and the two getmtime()
Sprawdz(p) ==
    /\ watki[p].pc = "sprawdz"
    /\ watki' = [watki EXCEPT ![p] =
                    IF ~excel.istnieje
                    THEN [poza_funkcja EXCEPT !.wynik = "brak_pliku"]
                    ELSE [pc |-> "wczytaj", aktualny |-> cache_jest_aktualny,
                          df |-> pusty, wynik |-> "-"]]
    /\ UNCHANGED <<klas_vars, plik_vars, call_vars, dash_vars, ui_vars>>

\* lines 200-240: read_feather or read_excel, then the processing
Wczytaj(p) ==
    /\ watki[p].pc = "wczytaj"
    /\ \E io_ok \in BOOLEAN :
         LET a == watki[p].aktualny
             wczytane == IF czytaj_cache(a) THEN read_feather ELSE read_excel(io_ok)
         IN  IF wczytane.wyjatek # "brak"
             THEN watki' = [watki EXCEPT ![p] =
                               [poza_funkcja EXCEPT !.aktualny = a, !.wynik = "blad"]]
             ELSE \E w \in przetworz(wczytane.ramka) :
                    watki' = [watki EXCEPT ![p] =
                        IF w.wyjatek # "brak"
                        THEN [poza_funkcja EXCEPT !.aktualny = a, !.wynik = "blad"]
                        ELSE IF zapisuj(a)
                        THEN [pc |-> "zapis", aktualny |-> a, df |-> w.df,
                              wynik |-> "-"]
                        ELSE [pc |-> "poza", aktualny |-> a, df |-> w.df,
                              wynik |-> "ok"]]
    /\ UNCHANGED <<klas_vars, plik_vars, call_vars, dash_vars, ui_vars>>

\* the cache file once to_feather has opened it for writing
otwarty_do_zapisu ==
    [istnieje |-> TRUE, mtime |-> zegar, uszkodzony |-> TRUE, df |-> pusty]

\* line 254, first half: to_feather opens the cache file for writing, which
\* empties it, or fails to (lines 256-258 swallow that)
OtworzPlik(p) ==
    /\ watki[p].pc = "zapis"
    /\ \E otwarto \in BOOLEAN :
         IF otwarto
         THEN /\ feather' = otwarty_do_zapisu
              /\ watki' = [watki EXCEPT ![p].pc = "zapis_w_toku"]
         ELSE /\ feather' = feather
              /\ watki' = [watki EXCEPT ![p].pc = "poza", ![p].wynik = "ok"]
    /\ UNCHANGED <<klas_vars, zegar, excel, call_vars, dash_vars, ui_vars>>

\* line 254, second half: the bytes are written and the file is closed, or the
\* write breaks off; with a second writer at work the bytes of the two may
\* mix. Lines 260-264: the call returns.
DokonczZapis(p) ==
    /\ watki[p].pc = "zapis_w_toku"
    /\ \E zapis \in {"ok", "uciety"}, zmieszane \in BOOLEAN :
         /\ zmieszane => \E q \in Procesy \ {p} : watki[q].pc = "zapis_w_toku"
         /\ feather' = IF zapis = "ok" /\ ~zmieszane
                       THEN to_feather(df_do_zapisu(watki[p].df), "ok")
                       ELSE otwarty_do_zapisu
    /\ watki' = [watki EXCEPT ![p].pc = "poza", ![p].wynik = "ok"]
    /\ UNCHANGED <<klas_vars, zegar, excel, call_vars, dash_vars, ui_vars>>

\* A workbook is in the folder, no cache file yet, nobody inside the loader.
InitWspolbiezny ==
    /\ SYS = 0 /\ DIA = 0 /\ Kategoria = "-"
    /\ zegar = 0
    /\ \E sk \in Skoroszyty :
           excel = [istnieje |-> TRUE, mtime |-> 0, kolumny |-> sk.kolumny,
                    tabela |-> sk.tabela]
    /\ feather = brak_pliku
    /\ ret = [wyjatek |-> "brak", df |-> pusty, komunikat |-> brak_komunikatu]
    /\ slad = brak_sladu
    /\ ostatni_fetch = [jest |-> FALSE, df |-> pusty]
    /\ n_clicks_regular = 0 /\ n_clicks_bypass = 0
    /\ data_store = to_json(pusty)
    /\ status_output = brak_komunikatu
    /\ Spoczynek

NextWspolbiezny ==
    \/ \E p \in Procesy : Wejdz(p)
    \/ \E p \in Procesy : Sprawdz(p)
    \/ \E p \in Procesy : Wczytaj(p)
    \/ \E p \in Procesy : OtworzPlik(p)
    \/ \E p \in Procesy : DokonczZapis(p)
    \/ UsunExcel

SpecWspolbiezny == InitWspolbiezny /\ [][NextWspolbiezny]_vars

\* ------------------------------------------------------------------ charts
KOLORY_ESC ==
    [ Optymalne |-> "#2ca02c", Prawidlowe |-> "#90EE90",
      Podwyzszone |-> "#FFD700", Nadcisnienie_1 |-> "#FFA500",
      Nadcisnienie_2 |-> "#FF6347", Nadcisnienie_3 |-> "#8B0000",
      ISH |-> "#9370DB" ]

\* KOLORY_ESC[kategoria] for a category name
kolor(kategoria) ==
    CASE kategoria = "Optymalne" -> KOLORY_ESC.Optymalne
      [] kategoria = "Prawidlowe" -> KOLORY_ESC.Prawidlowe
      [] kategoria = "Podwyzszone" -> KOLORY_ESC.Podwyzszone
      [] kategoria = "Nadcisnienie 1" -> KOLORY_ESC.Nadcisnienie_1
      [] kategoria = "Nadcisnienie 2" -> KOLORY_ESC.Nadcisnienie_2
      [] kategoria = "Nadcisnienie 3" -> KOLORY_ESC.Nadcisnienie_3
      [] kategoria = "Izolowane nadcisnienie skurczowe" -> KOLORY_ESC.ISH
      [] OTHER -> "-"

\* utils.py: go.Figure() with the title and both axes hidden
utworz_pusty_wykres(tytul) ==
    [klasa |-> "Figure", title |-> tytul, widoczne_osie |-> FALSE,
     shapes |-> << >>, punkty |-> << >>]

\* a figure with traces, as the body of a generator builds it
wykres(tytul, shapes, punkty) ==
    [klasa |-> "Figure", title |-> tytul, widoczne_osie |-> TRUE,
     shapes |-> shapes, punkty |-> punkty]

\* df.columns of a frame with rows
columns(df) == IF df = pusty THEN {} ELSE DOMAIN df[1]

\* utils.py validate_dataframe: [ok, msg]
validate_dataframe(df, required_columns) ==
    IF df = pusty
    THEN [ok |-> FALSE, msg |-> "Brak danych wejsciowych do wizualizacji"]
    ELSE IF required_columns \ columns(df) # {}
    THEN [ok |-> FALSE, msg |-> "Brakujace kolumny"]
    ELSE [ok |-> TRUE, msg |-> ""]

\* the values of column k in df
nunique(df, k) == Cardinality({ df[i][k] : i \in 1..Len(df) })

\* A try block whose KeyError leaves the generator.
w_try_bez_except(df, uzyte, wynik) ==
    IF uzyte \subseteq columns(df) THEN wynik
    ELSE [klasa |-> "KeyError", title |-> "-", widoczne_osie |-> FALSE,
          shapes |-> << >>, punkty |-> << >>]

\* try: the body, which reads the columns uzyte of df and gives wynik;
\* except Exception as e: return utworz_pusty_wykres(f"Blad: {e}")
w_try(df, uzyte, wynik) ==
    IF uzyte \subseteq columns(df) THEN wynik ELSE utworz_pusty_wykres("Blad")

generate_trend_chart(df) ==
    LET v == validate_dataframe(df, {"Datetime", "SYS", "DIA", "PUL"})
    IN  IF ~v.ok THEN utworz_pusty_wykres(v.msg)
        ELSE IF df = pusty THEN utworz_pusty_wykres("Brak danych do wyswietlenia")
        ELSE w_try(df, {"Datetime", "SYS", "DIA", "PUL"},
                   wykres("Trend cisnienia i pulsu w czasie", << >>, << >>))

generate_circadian_rhythm_chart(df) ==
    LET v == validate_dataframe(df, {"Datetime", "Hour", "SYS", "DIA"})
    IN  IF ~v.ok THEN utworz_pusty_wykres(v.msg)
        ELSE w_try(df, {"Hour", "SYS", "DIA"},
                   IF nunique(df, "Hour") < 2
                   THEN utworz_pusty_wykres("Zbyt malo danych dla wybranego okresu")
                   ELSE wykres("Dobowy Rytm Cisnienia", << >>, << >>))

\* stats.linregress raises ValueError when all x values are identical
generate_correlation_chart(df) ==
    IF df = pusty THEN utworz_pusty_wykres("Brak danych do wyswietlenia")
    ELSE w_try(df, {"DIA", "SYS", "PUL"},
               IF nunique(df, "DIA") < 2
               THEN utworz_pusty_wykres("Blad")
               ELSE wykres("Zaleznosc SYS-DIA", << >>, << >>))

generate_heatmap_chart(df) ==
    LET v == validate_dataframe(df, {"Dzien", "Hour", "SYS"})
    IN  IF ~v.ok THEN utworz_pusty_wykres(v.msg)
        ELSE w_try(df, {"Dzien", "Hour", "SYS"},
                   IF nunique(df, "Dzien") > 1 /\ nunique(df, "Hour") > 1
                   THEN wykres("Heatmapa cisnienia skurczowego", << >>, << >>)
                   ELSE utworz_pusty_wykres(
                            "Zbyt malo danych do wygenerowania heatmapy"))

generate_histogram_chart(df, selected_column) ==
    LET v == validate_dataframe(df, {selected_column})
    IN  IF ~v.ok THEN utworz_pusty_wykres(v.msg)
        ELSE w_try(df, {selected_column},
                   wykres("Rozklad wartosci", << >>, << >>))

\* classification.py lines 43-162: the zones, DIA on x and SYS on y
strefy ==
    << [x0 |-> 40, y0 |-> 60, x1 |-> PROGI_ESC.optymalne.dia,
        y1 |-> PROGI_ESC.optymalne.sys, color |-> KOLORY_ESC.Optymalne],
       [x0 |-> PROGI_ESC.optymalne.dia, y0 |-> 60,
        x1 |-> PROGI_ESC.prawidlowe.dia, y1 |-> PROGI_ESC.optymalne.sys,
        color |-> KOLORY_ESC.Prawidlowe],
       [x0 |-> 40, y0 |-> PROGI_ESC.optymalne.sys,
        x1 |-> PROGI_ESC.prawidlowe.dia, y1 |-> PROGI_ESC.prawidlowe.sys,
        color |-> KOLORY_ESC.Prawidlowe],
       [x0 |-> PROGI_ESC.prawidlowe.dia, y0 |-> 60,
        x1 |-> PROGI_ESC.podwyzszone.dia, y1 |-> PROGI_ESC.prawidlowe.sys,
        color |-> KOLORY_ESC.Podwyzszone],
       [x0 |-> 40, y0 |-> PROGI_ESC.prawidlowe.sys,
        x1 |-> PROGI_ESC.podwyzszone.dia, y1 |-> PROGI_ESC.podwyzszone.sys,
        color |-> KOLORY_ESC.Podwyzszone],
       [x0 |-> 40, y0 |-> PROGI_ESC.podwyzszone.sys,
        x1 |-> PROGI_ESC.podwyzszone.dia, y1 |-> 220,
        color |-> KOLORY_ESC.ISH],
       [x0 |-> PROGI_ESC.podwyzszone.dia, y0 |-> 60,
        x1 |-> PROGI_ESC.nadcisnienie_1.dia, y1 |-> PROGI_ESC.nadcisnienie_1.sys,
        color |-> KOLORY_ESC.Nadcisnienie_1],
       [x0 |-> PROGI_ESC.podwyzszone.dia, y0 |-> PROGI_ESC.podwyzszone.sys,
        x1 |-> PROGI_ESC.nadcisnienie_1.dia, y1 |-> PROGI_ESC.nadcisnienie_1.sys,
        color |-> KOLORY_ESC.Nadcisnienie_1],
       [x0 |-> PROGI_ESC.nadcisnienie_1.dia, y0 |-> 60,
        x1 |-> PROGI_ESC.nadcisnienie_2.dia, y1 |-> PROGI_ESC.nadcisnienie_2.sys,
        color |-> KOLORY_ESC.Nadcisnienie_2],
       [x0 |-> PROGI_ESC.podwyzszone.dia, y0 |-> PROGI_ESC.nadcisnienie_1.sys,
        x1 |-> PROGI_ESC.nadcisnienie_2.dia, y1 |-> PROGI_ESC.nadcisnienie_2.sys,
        color |-> KOLORY_ESC.Nadcisnienie_2],
       [x0 |-> PROGI_ESC.nadcisnienie_2.dia, y0 |-> 60, x1 |-> 120, y1 |-> 220,
        color |-> KOLORY_ESC.Nadcisnienie_3],
       [x0 |-> PROGI_ESC.podwyzszone.dia, y0 |-> PROGI_ESC.nadcisnienie_2.sys,
        x1 |-> PROGI_ESC.nadcisnienie_2.dia, y1 |-> 220,
        color |-> KOLORY_ESC.Nadcisnienie_3] >>

\* classification.py lines 165-178: the zones as layout shapes
shapes ==
    [i \in 1..Len(strefy) |->
        [x0 |-> strefy[i].x0, y0 |-> strefy[i].y0, x1 |-> strefy[i].x1,
         y1 |-> strefy[i].y1, fillcolor |-> strefy[i].color]]

\* classification.py lines 182-198: one marker per row, with its hover text
markers(df) ==
    [i \in 1..Len(df) |->
        [x |-> df[i].DIA, y |-> df[i].SYS, Kategoria |-> df[i].Kategoria]]

generate_classification_matrix_chart(df) ==
    IF df = pusty THEN utworz_pusty_wykres("Brak danych do wyswietlenia")
    ELSE w_try(df, {"DIA", "SYS", "Datetime", "Kategoria"},
               wykres("Macierz Klasyfikacji Pomiarow Cisnienia", shapes,
                      markers(df)))

generate_esc_category_bar_chart(df) ==
    IF df = pusty THEN utworz_pusty_wykres("Brak danych do wyswietlenia")
    ELSE w_try(df, {"Kategoria"},
               wykres("Klasyfikacja Pomiarow Cisnienia", << >>, << >>))

generate_comparison_chart(df, category_column, chart_type) ==
    IF df = pusty THEN utworz_pusty_wykres("Brak danych do wyswietlenia")
    ELSE w_try(df, {category_column, "SYS", "DIA"},
               IF chart_type = "violin"
               THEN wykres("Rozklad gestosci cisnienia", << >>, << >>)
               ELSE wykres("Rozklad cisnienia", << >>, << >>))

\* ------------------------------------------------------------------ charts run
\* The frames the generators are given: the processed frame of every table of
\* complete readings up to MaxWykres rows, and the same frame with only the
\* columns of the frame of tests/test_charts.py.
KolumnyTestu ==
    {"Datetime", "Hour", "SYS", "DIA", "PUL", "Kategoria", "Dzien", "Typ_Dnia"}

tylko_kolumny(df, kolumny) ==
    [i \in 1..Len(df) |-> [k \in DOMAIN df[i] \cap kolumny |-> df[i][k]]]

RamkiPrzetworzone ==
    UNION { { w.df : w \in przetworz([kolumny |-> Kolumny, wiersze |-> t]) }
            : t \in UNION { [1..n -> Pomiary] : n \in 0..MaxWykres } }

RamkiWykresow ==
    RamkiPrzetworzone
    \cup { tylko_kolumny(df, KolumnyTestu) : df \in RamkiPrzetworzone }

InitWykresy ==
    /\ SYS = 0 /\ DIA = 0 /\ Kategoria = "-"
    /\ zegar = 0
    /\ excel = brak_excela
    /\ feather = brak_pliku
    /\ ret = [wyjatek |-> "brak", df |-> pusty, komunikat |-> brak_komunikatu]
    /\ slad = brak_sladu
    /\ ostatni_fetch = [jest |-> FALSE, df |-> pusty]
    /\ n_clicks_regular = 0 /\ n_clicks_bypass = 0
    /\ \E df \in RamkiWykresow : data_store = to_json(df)
    /\ status_output = brak_komunikatu
    /\ Spoczynek

\* what a chart callback leaves alone
bez_zmian_poza_fig ==
    UNCHANGED <<klas_vars, plik_vars, call_vars, dash_vars, watki,
                n_intervals, day_slider>>

RysujTrend ==
    /\ fig' = generate_trend_chart(data_store.json)
    /\ bez_zmian_poza_fig

RysujRytm ==
    /\ fig' = generate_circadian_rhythm_chart(data_store.json)
    /\ bez_zmian_poza_fig

RysujKorelacje ==
    /\ fig' = generate_correlation_chart(data_store.json)
    /\ bez_zmian_poza_fig

RysujHeatmape ==
    /\ fig' = generate_heatmap_chart(data_store.json)
    /\ bez_zmian_poza_fig

RysujHistogram ==
    /\ \E column \in {"SYS", "DIA", "PUL"} :
           fig' = generate_histogram_chart(data_store.json, column)
    /\ bez_zmian_poza_fig

RysujMacierz ==
    /\ fig' = generate_classification_matrix_chart(data_store.json)
    /\ bez_zmian_poza_fig

RysujKategorie ==
    /\ fig' = generate_esc_category_bar_chart(data_store.json)
    /\ bez_zmian_poza_fig

RysujPorownanie ==
    /\ \E category \in {"Godzina_Pomiaru", "Typ_Dnia"},
          chart_type \in {"box", "violin"} :
           fig' = generate_comparison_chart(data_store.json, category,
                                            chart_type)
    /\ bez_zmian_poza_fig

NextWykresy ==
    \/ RysujTrend
    \/ RysujRytm
    \/ RysujKorelacje
    \/ RysujHeatmape
    \/ RysujHistogram
    \/ RysujMacierz
    \/ RysujKategorie
    \/ RysujPorownanie

SpecWykresy == InitWykresy /\ [][NextWykresy]_vars

\* A reading in the plotted range is drawn on the matrix.
InitMacierz ==
    /\ SYS \in 60..220 /\ DIA \in 40..120
    /\ Kategoria = "-"
    /\ zegar = 0
    /\ excel = brak_excela
    /\ feather = brak_pliku
    /\ ret = [wyjatek |-> "brak", df |-> pusty, komunikat |-> brak_komunikatu]
    /\ slad = brak_sladu
    /\ ostatni_fetch = [jest |-> FALSE, df |-> pusty]
    /\ n_clicks_regular = 0 /\ n_clicks_bypass = 0
    /\ data_store =
           to_json(z_pochodnymi(z_datetime(
               << [Data |-> 0, Godzina |-> 10, SYS |-> SYS, DIA |-> DIA,
                   PUL |-> 60] >>)))
    /\ status_output = brak_komunikatu
    /\ Spoczynek

NextMacierz == RysujMacierz

SpecMacierz == InitMacierz /\ [][NextMacierz]_vars

\* ------------------------------------------------------------------ animation
\* dash.no_update: the output keeps the value it has
no_update == -4

\* advance_slider that never goes back to the start.
advance_slider_bez_powrotu(n, current_value, max_value) ==
    IF n = 0 \/ current_value = None THEN no_update
    ELSE current_value + 1

\* callbacks.py lines 843-845
advance_slider(n, current_value, max_value) ==
    IF n = 0 \/ current_value = None THEN no_update
    ELSE LET new_value == current_value + 1
         IN  IF new_value > max_value THEN 0 ELSE new_value

\* Output('day-slider', 'value') after the callback returned r
po_advance(r) ==
    [day_slider EXCEPT !.value = IF r = no_update THEN @ ELSE r]

\* The slider holds any value of its range, or none, under any maximum up to
\* MaxSuwak; the interval has not fired yet.
InitSuwak ==
    /\ SYS = 0 /\ DIA = 0 /\ Kategoria = "-"
    /\ zegar = 0
    /\ excel = brak_excela
    /\ feather = brak_pliku
    /\ ret = [wyjatek |-> "brak", df |-> pusty, komunikat |-> brak_komunikatu]
    /\ slad = brak_sladu
    /\ ostatni_fetch = [jest |-> FALSE, df |-> pusty]
    /\ n_clicks_regular = 0 /\ n_clicks_bypass = 0
    /\ data_store = to_json(pusty)
    /\ status_output = brak_komunikatu
    /\ watki = [p \in Procesy |-> poza_funkcja]
    /\ n_intervals = 0
    /\ \E m \in 0..MaxSuwak : \E v \in {None} \cup 0..m :
           day_slider = [value |-> v, max |-> m]
    /\ fig = brak_figury

\* The page is loaded: Dash calls advance_slider with the layout's n_intervals.
Zaladuj ==
    /\ n_intervals = 0
    /\ day_slider' =
           po_advance(advance_slider(n_intervals, day_slider.value,
                                     day_slider.max))
    /\ UNCHANGED <<klas_vars, plik_vars, call_vars, dash_vars, watki,
                   n_intervals, fig>>

\* The interval fires: n_intervals goes up by one and advance_slider runs.
Tyk ==
    /\ n_intervals < MaxTykow
    /\ n_intervals' = n_intervals + 1
    /\ day_slider' =
           po_advance(advance_slider(n_intervals', day_slider.value,
                                     day_slider.max))
    /\ UNCHANGED <<klas_vars, plik_vars, call_vars, dash_vars, watki, fig>>

NextSuwak ==
    \/ Zaladuj
    \/ Tyk

SpecSuwak == InitSuwak /\ [][NextSuwak]_vars

\* ------------------------------------------------------------------ clicks run
\* A workbook is in the folder; the application starts and the two refresh
\* buttons are clicked, the files staying as they are.
NextKlikniecia ==
    \/ Uruchom
    \/ KlikOdswiez
    \/ KlikOdswiezBezCache

SpecKlikniecia == InitWspolbiezny /\ [][NextKlikniecia]_vars

\* ------------------------------------------------------------------ derived columns run
\* lines 227-240 on a frame of one complete row with the values SYS and DIA
Wyprowadz ==
    /\ ret.df = pusty
    /\ ret' = [ret EXCEPT !.df =
                  z_pochodnymi(<< [Data |-> 0, Godzina |-> 10, SYS |-> SYS,
                                   DIA |-> DIA, PUL |-> 60, Datetime |-> 10] >>)]
    /\ UNCHANGED <<klas_vars, plik_vars, slad, ostatni_fetch, dash_vars, watki,
                   ui_vars>>

NextPochodne == Wyprowadz

SpecPochodne == InitKlasyfikacja /\ [][NextPochodne]_vars

\* ------------------------------------------------------------------ claims C1-C5
Sklasyfikowano == Kategoria # "-"

ISH_nazwa == "Izolowane nadcisnienie skurczowe"

\* C1: every pair gets exactly one category and it is one of the seven names of
\* KOLEJNOSC_ESC (the category is the value of an operator of the pair alone).
C1_JednaZSiedmiu ==
    Sklasyfikowano =>
        Cardinality({ i \in 1..Len(KOLEJNOSC_ESC) : KOLEJNOSC_ESC[i] = Kategoria }) = 1

C1_Swiadek == Sklasyfikowano /\ Kategoria = ISH_nazwa /\ SYS = 150 /\ DIA = 60

\* C2: SYS >= 140 and DIA < 90 gives isolated systolic elevation, whatever tier
\* the systolic value alone reaches.
C2_ISHPierwsze ==
    (Sklasyfikowano /\ SYS >= 140 /\ DIA < 90) => Kategoria = ISH_nazwa

C2_Swiadek ==
    Sklasyfikowano /\ SYS >= 180 /\ DIA \in 80..89 /\ Kategoria = ISH_nazwa

\* the tier a systolic value reaches on its own: 0 (optimal) .. 5 (tier 3)
StopienSys(s) == Cardinality({ c \in {120, 130, 140, 160, 180} : s >= c })

\* the tier a diastolic value reaches on its own
StopienDia(d) == Cardinality({ c \in {70, 80, 90, 100, 110} : d >= c })

Wiekszy(a, b) == IF a >= b THEN a ELSE b

\* C3: outside the isolated-systolic case (SYS < 140 or DIA >= 90) the category
\* is the higher of the systolic-only tier and the diastolic-only tier.
C3_WyzszyStopien ==
    (Sklasyfikowano /\ (SYS < 140 \/ DIA >= 90)) =>
        Kategoria = KOLEJNOSC_ESC[1 + Wiekszy(StopienSys(SYS), StopienDia(DIA))]

C3_Swiadek ==
    Sklasyfikowano /\ SYS = 125 /\ DIA = 104 /\ Kategoria = "Nadcisnienie 2"

\* C4: the six worked examples of the project thresholds.
C4_Przyklady ==
    Sklasyfikowano =>
        /\ (SYS = 142 /\ DIA = 72) => Kategoria = ISH_nazwa
        /\ (SYS = 154 /\ DIA = 95) => Kategoria = "Nadcisnienie 1"
        /\ (SYS = 185 /\ DIA = 85) => Kategoria = ISH_nazwa
        /\ (SYS = 185 /\ DIA = 95) => Kategoria = "Nadcisnienie 3"
        /\ (SYS = 112 /\ DIA = 68) => Kategoria = "Optymalne"
        /\ (SYS = 127 /\ DIA = 78) => Kategoria = "Prawidlowe"

C4_Swiadek ==
    Sklasyfikowano /\ SYS = 185 /\ DIA = 95 /\ Kategoria = "Nadcisnienie 3"

\* C5: a pair with both values in the band of one tier gets that tier, for each
\* of the six tiers; systolic in the Tier-1 band with diastolic in the Elevated
\* band is isolated systolic elevation.
C5_Pasma ==
    Sklasyfikowano =>
        /\ (SYS < 120 /\ DIA < 70) => Kategoria = "Optymalne"
        /\ (SYS \in 120..129 /\ DIA \in 70..79) => Kategoria = "Prawidlowe"
        /\ (SYS \in 130..139 /\ DIA \in 80..89) => Kategoria = "Podwyzszone"
        /\ (SYS \in 140..159 /\ DIA \in 90..99) => Kategoria = "Nadcisnienie 1"
        /\ (SYS \in 160..179 /\ DIA \in 100..109) => Kategoria = "Nadcisnienie 2"
        /\ (SYS >= 180 /\ DIA >= 110) => Kategoria = "Nadcisnienie 3"
        /\ (SYS \in 140..159 /\ DIA \in 80..89) => Kategoria = ISH_nazwa

C5_Swiadek ==
    Sklasyfikowano /\ SYS = 145 /\ DIA = 85 /\ Kategoria = ISH_nazwa

\* ------------------------------------------------------------------ claims C6-C10
\* The last call ran the body of wczytaj_i_przetworz_dane.
Wywolano == slad.wolajacy # "-" /\ slad.kwargs \subseteq Parametry

Udane == ret.wyjatek = "brak" /\ ret.komunikat.typ = "ok"

Nieudane == ret.wyjatek # "brak" \/ ret.komunikat.typ \in {"brak_pliku", "blad"}

\* a and b hold the same rows, whatever the order of rows of equal Datetime
TeSameWiersze(a, b) ==
    /\ Len(a) = Len(b)
    /\ \E q \in Permutations(1..Len(a)) : \A i \in 1..Len(a) : a[i] = b[q[i]]

C7_Stan ==
    /\ (Wywolano /\ ~slad.cache_byl /\ slad.excel_byl) => slad.czytano_excel
    /\ (Wywolano /\ slad.czytano_excel /\ Udane /\ slad.zapis = "ok") =>
           /\ feather.istnieje /\ ~feather.uszkodzony
           /\ feather.df = df_do_zapisu(ret.df)

C8_Wymuszenie ==
    /\ (slad.wolajacy # "-" /\ slad.force_refresh /\ slad.swiezy)
           => slad.czytano_excel
    /\ (Wywolano /\ ~slad.force_refresh /\ slad.excel_byl /\ slad.cache_byl
            /\ ~slad.swiezy)
           => slad.czytano_excel

\* C9: a call that ends in failure leaves the cache file as it was.
C9_CacheNietkniety ==
    [][ (Wywolano' /\ Nieudane' /\ feather.istnieje) => feather' = feather ]_vars

C9_Swiadek ==
    /\ Wywolano /\ Nieudane /\ slad.cache_byl /\ slad.awaria = "odczyt"
    /\ feather.istnieje /\ ~feather.uszkodzony /\ Len(feather.df) = 1

Zawiera(t, fraza) ==
    \E i \in 0..(Len(t) - Len(fraza)) :
        \A j \in 1..Len(fraza) : t[i + j] = fraza[j]

\* C11: a call that finds no workbook returns an empty frame and a status text
\* that contains the words 'Blad podczas wczytywania pliku'.
C11_BrakPlikuTekst ==
    (Wywolano /\ ~slad.excel_byl) =>
        /\ ret.wyjatek = "brak" /\ ret.df = pusty
        /\ Zawiera(tekst(ret.komunikat),
                   << "Blad", "podczas", "wczytywania", "pliku" >>)

\* the ttl of the claims, in seconds
ttl == DATA_CACHE_TTL_MINUTES * 60

\* C12: a call that finds workbook and cache file takes the cache for fresh
\* exactly when the cache was written at most ttl (5 minutes) before the call.
C12_SwiezyWgTTL ==
    [][ (Uruchom /\ excel.istnieje /\ feather.istnieje) =>
            (slad'.aktualny <=> (zegar - feather.mtime <= ttl)) ]_vars

\* C13: a dataset a call serves from the cache was fetched from the workbook at
\* most ttl before that call.
C13_WiekDanych ==
    [][ (Uruchom /\ Udane' /\ slad'.czytano_feather) =>
            zegar - feather.mtime <= ttl ]_vars

\* C14: a call that finds a current but unreadable cache file goes on to read
\* the workbook instead of failing.
C14_UszkodzonyCache ==
    (Wywolano /\ slad.swiezy /\ slad.awaria = "cache") =>
        /\ slad.czytano_excel
        /\ ret.komunikat.typ = "blad" => ~slad.czytano_feather

\* C15: whatever a call does to the cache file, the file afterwards is the
\* complete record it was before or the complete record of that call's dataset.
C15_ZapisAtomowy ==
    [][ \/ feather' = feather
        \/ /\ feather'.istnieje /\ ~feather'.uszkodzony
           /\ feather'.df = df_do_zapisu(ret'.df) ]_vars

\* C16: a call in which something failed, the cache write included, does not
\* return the status text of a call in which nothing failed.
C16_BladWKomunikacie ==
    (Wywolano /\ (slad.awaria # "brak" \/ slad.zapis \in {"blad", "uciety"})) =>
        ret.komunikat.typ # "ok"

\* ------------------------------------------------------------------ claims C17-C20
\* the five columns of the workbook in a row of a frame
Surowy(r) ==
    [Data |-> r.Data, Godzina |-> r.Godzina, SYS |-> r.SYS, DIA |-> r.DIA,
     PUL |-> r.PUL]

\* how many rows of the frame df are the workbook row w
Ile(df, w) == Cardinality({ i \in 1..Len(df) : Surowy(df[i]) = w })

ZnacznikOK(w) == to_datetime(w.Data, w.Godzina) # NaT

BezBrakow(w) == w.SYS # NaN /\ w.DIA # NaN /\ w.PUL # NaN

\* C17: every row of a frame returned with success has a timestamp and the
\* three values; a workbook row whose date and time do not parse or that lacks
\* a value is not in the frame; every other workbook row is there, as many
\* times as in the workbook.
C17_TylkoKompletne ==
    (Wywolano /\ Udane) =>
        /\ \A i \in 1..Len(ret.df) :
               ret.df[i].Datetime # NaT /\ BezBrakow(ret.df[i])
        /\ \A w \in Pomiary :
               Ile(ret.df, w) =
                   IF ZnacznikOK(w) /\ BezBrakow(w) THEN Ile(excel.tabela, w) ELSE 0

C17_Swiadek ==
    /\ Wywolano /\ Udane /\ slad.czytano_excel
    /\ Len(excel.tabela) = 3 /\ Len(ret.df) = 1
    /\ \E i \in 1..3 : ~ZnacznikOK(excel.tabela[i])
    /\ \E i \in 1..3 : ZnacznikOK(excel.tabela[i]) /\ ~BezBrakow(excel.tabela[i])

\* The rows the last call read: the workbook's, or the cache's (which the
\* call has not changed) when it took the cache.
Wejscie == IF slad.czytano_excel THEN excel.tabela ELSE feather.df

\* N of C18: the rows read; M: those among them that lack a value
LiczbaN == Len(Wejscie)

LiczbaM == Cardinality({ i \in 1..Len(Wejscie) : ~BezBrakow(Wejscie[i]) })

ZnacznikiOK == \A i \in 1..Len(Wejscie) : ZnacznikOK(Wejscie[i])

\* the status text says that n readings were loaded
MowiWczytano(n) ==
    Zawiera(tekst(ret.komunikat), << "wczytano", ToString(n), "pomiarow" >>)

\* the status text says that m rows were removed
MowiUsunieto(m) ==
    Zawiera(tekst(ret.komunikat),
            << "Usunieto", ToString(m), "niekompletnych", "wierszy" >>)

C19_SumaWierszy ==
    (Wywolano /\ Udane /\ slad.czytano_excel) =>
        \E n, m \in 0..Len(excel.tabela) :
            /\ MowiWczytano(n)
            /\ IF m > 0 THEN MowiUsunieto(m)
                        ELSE ~Zawiera(tekst(ret.komunikat), << "Usunieto" >>)
            /\ n + m = Len(excel.tabela)

\* the rows of df stand in ascending order of Datetime
Rosnaco(df) ==
    \A i, j \in 1..Len(df) : i < j => df[i].Datetime <= df[j].Datetime

\* C20: a frame returned with success, read from the workbook or from the
\* cache, is in ascending order of Datetime, and for every timestamp it has as
\* many rows as the workbook has complete rows with that timestamp.
C20_Posortowane ==
    (Wywolano /\ Udane) =>
        /\ Rosnaco(ret.df)
        /\ \A t \in { to_datetime(w.Data, w.Godzina) : w \in Pomiary } \ {NaT} :
               Cardinality({ i \in 1..Len(ret.df) : ret.df[i].Datetime = t }) =
               Cardinality({ i \in 1..Len(excel.tabela) :
                               /\ to_datetime(excel.tabela[i].Data,
                                              excel.tabela[i].Godzina) = t
                               /\ BezBrakow(excel.tabela[i]) })

C20_Swiadek ==
    /\ Wywolano /\ Udane /\ slad.czytano_feather
    /\ Len(excel.tabela) = 3 /\ Len(ret.df) = 3
    /\ to_datetime(excel.tabela[1].Data, excel.tabela[1].Godzina) >
           to_datetime(excel.tabela[2].Data, excel.tabela[2].Godzina)
    /\ ret.df[1].Datetime = ret.df[2].Datetime
    /\ Surowy(ret.df[1]) # Surowy(ret.df[2])

\* ------------------------------------------------------------------ claims C21-C30
\* C21: a call that reads a workbook lacking one of the five columns returns an
\* empty frame and an error status text that names every column that is
\* missing.
C21_BrakujaceKolumny ==
    [][ (Uruchom /\ slad'.awaria = "kolumny") =>
            /\ ret'.wyjatek = "brak" /\ ret'.df = pusty
            /\ ret'.komunikat.typ = "blad"
            /\ (Kolumny \ excel.kolumny) \subseteq ret'.komunikat.e ]_vars

\* C22: in a row with systolic s and diastolic d the pulse pressure is s - d and
\* the mean arterial pressure is the tenth nearest to (s + 2d)/3; deriving the
\* columns again from the row gives the same two values.
C22_Pochodne ==
    ret.df # pusty =>
        LET r == ret.df[1]
        IN  /\ r.SYS = SYS /\ r.DIA = DIA
            /\ r.PP = SYS - DIA
            /\ 3 * r.MAP - 10 * (SYS + 2 * DIA) \in -1..1
            /\ z_pochodnymi(ret.df)[1].MAP = r.MAP
            /\ z_pochodnymi(ret.df)[1].PP = r.PP

C22_Swiadek ==
    /\ ret.df # pusty /\ SYS = 121 /\ DIA = 80
    /\ ret.df[1].MAP = 937 /\ ret.df[1].PP = 41

\* C23: while one caller is in the middle of writing the cache file no other
\* caller reads the cache file or opens it for writing.
C23_Serializacja ==
    [][ \A p, q \in Procesy :
          (p # q /\ watki[q].pc = "zapis_w_toku") =>
              /\ ~(Wczytaj(p) /\ watki[p].aktualny)
              /\ ~(OtworzPlik(p) /\ watki'[p].pc = "zapis_w_toku") ]_vars

\* C24: every chart generator returns a Figure, never an exception and never
\* None, for the empty table and for a table with data; for the empty table
\* the Figure is the placeholder with one of the two 'no data' titles.
C24_ZawszeFigura ==
    fig # brak_figury =>
        /\ fig.klasa = "Figure"
        /\ data_store.json = pusty =>
               /\ ~fig.widoczne_osie
               /\ fig.title \in {"Brak danych do wyswietlenia",
                                 "Brak danych wejsciowych do wizualizacji"}

C24_Swiadek ==
    /\ data_store.json # pusty
    /\ fig.klasa = "Figure"
    /\ fig.title = "Blad"
    /\ "Godzina_Pomiaru" \notin columns(data_store.json)

\* the rectangle s, closed below and open above on both axes, holds marker p
w_strefie(s, p) ==
    /\ s.x0 <= p.x /\ p.x < s.x1
    /\ s.y0 <= p.y /\ p.y < s.y1

\* C25: for every integer point (DIA, SYS) of the plotted range, each zone
\* rectangle of the classification matrix that holds the point carries the
\* colour of the category the classifier gives the point, and the ISH zone
\* holds the point exactly when SYS >= 140 and DIA < 90.
C25_StrefyZgodne ==
    fig.punkty # << >> =>
        LET p == fig.punkty[1]
            I == DOMAIN fig.shapes
        IN  /\ \A i \in I :
                   w_strefie(fig.shapes[i], p) =>
                       fig.shapes[i].fillcolor = kolor(p.Kategoria)
            /\ (\E i \in I : /\ fig.shapes[i].fillcolor = KOLORY_ESC.ISH
                             /\ w_strefie(fig.shapes[i], p))
                   <=> (p.y >= 140 /\ p.x < 90)

\* C26: a call of advance_slider with n_intervals = 0 or with no current value
\* leaves the slider as it is; every tick with n_intervals > 0 moves a value v
\* of 0..max to v + 1, or to 0 when v = max, so the value stays in 0..max.
C26_SuwakWZakresie ==
    [][ LET v == day_slider.value
            m == day_slider.max
        IN  /\ Zaladuj => day_slider' = day_slider
            /\ Tyk =>
                 /\ day_slider'.max = m
                 /\ v = None => day_slider'.value = None
                 /\ v \in 0..m =>
                      /\ day_slider'.value \in 0..m
                      /\ day_slider'.value = IF v = m THEN 0 ELSE v + 1 ]_vars

C26_Swiadek ==
    /\ n_intervals > 0
    /\ day_slider.max > 0
    /\ day_slider.value = 0

\* C27: when the loader's call raises inside refresh_data, the click leaves the
\* data store with the dataset it held and puts an error message in the status
\* output; the dataset on display is not replaced through that path.
C27_DaneZostaja ==
    [][ ((KlikOdswiez \/ KlikOdswiezBezCache) /\ ret'.wyjatek # "brak") =>
            /\ data_store' = data_store
            /\ status_output'.typ = "blad_callback"
            /\ status_output'.e # {} ]_vars

C27_Swiadek ==
    /\ slad.wolajacy = "refresh_data"
    /\ ret.wyjatek # "brak"
    /\ data_store.json # pusty
    /\ status_output.typ = "blad_callback"

\* C28: refresh_data asks for force_refresh = TRUE exactly on the calls fired
\* by the 'refresh without cache' button; a click on the regular button asks
\* for FALSE whatever was clicked before.
C28_WymuszenieTylkoBezCache ==
    [][ /\ KlikOdswiezBezCache => slad'.force_refresh
        /\ (KlikOdswiez /\ ~KlikOdswiezBezCache) => ~slad'.force_refresh ]_vars

\* C29: a reading classified as hypertension of grade 1, 2 or 3 has DIA >= 90;
\* a reading classified as elevated, normal or optimal has SYS < 140 and
\* DIA < 90; optimal is given exactly when SYS < 120 and DIA < 70.
C29_Niezmienniki ==
    Kategoria # "-" =>
        /\ Kategoria \in {"Nadcisnienie 1", "Nadcisnienie 2", "Nadcisnienie 3"}
               => DIA >= 90
        /\ Kategoria \in {"Podwyzszone", "Prawidlowe", "Optymalne"}
               => (SYS < 140 /\ DIA < 90)
        /\ Kategoria = "Optymalne" <=> (SYS < 120 /\ DIA < 70)

C29_Swiadek ==
    /\ Kategoria = "Nadcisnienie 3"
    /\ SYS >= 180
    /\ DIA = 90

====
